---- MODULE Spec2Model ----
(***************************************************************************)
(* Model of mlx_benchmark/run_benchmark.py: the __main__ startup checks,    *)
(* the parent loop run_processes() and the child body run(), one child      *)
(* process per (operation, trial), talking through one mp.Queue.            *)
(***************************************************************************)
EXTENDS Integers, Sequences, FiniteSets, TLC

\* ---------------------------------------------------------------- bounds
MaxOps == 2          \* longest catalogue handed to run_processes
MaxIterations == 2   \* largest value of the `iterations` parameter
MaxLoad == 1         \* elapsed times of one context vary by 0..MaxLoad

\* ------------------------------------------------------- inputs and names
\* Two operation objects of the catalogue (kind = type(op).__name__).
OpObjects ==
    { [kind |-> "Argmax", args_str |-> "dim=64x1024x128"],
      [kind |-> "BCE",    args_str |-> "dim=1000000"] }

Catalogues == UNION { [1..n -> OpObjects] : n \in 0..MaxOps }

Flags == {"include_cpu", "include_mps", "include_mlx", "include_cuda", "compile"}

ArgSpace == [Flags -> BOOLEAN]

Keys == {"mlx_gpu", "mlx_gpu_compile", "mlx_cpu", "cpu", "mps", "cuda"}

PyNone == <<>>

EmptyDict == [k \in {} |-> 0]

\* d[k] = v on a Python dict
DictSet(d, k, v) == [x \in (DOMAIN d) \cup {k} |-> IF x = k THEN v ELSE d[x]]

\* d[k] on a defaultdict(factory): a missing key reads as the default
DefaultGet(d, k, default) == IF k \in DOMAIN d THEN d[k] ELSE default

\* op_name = type(op).__name__ + " / " + op.args_str
OpName(op) == <<op.kind, " / ", op.args_str>>

KeyIndex(key) ==
    CASE key = "mlx_gpu" -> 1
      [] key = "mlx_gpu_compile" -> 2
      [] key = "mlx_cpu" -> 3
      [] key = "cpu" -> 4
      [] key = "mps" -> 5
      [] key = "cuda" -> 6

KindIndex(op) == IF op.kind = "Argmax" THEN 1 ELSE 2

\* op.run(...) -> elapsed time: positive, different per operation kind and
\* backend, and varying from one context to the next with its load.
Elapsed(op, key, load) == 10 * KeyIndex(key) + 3 * KindIndex(op) + load

RECURSIVE SumSeq(_)
SumSeq(s) == IF s = <<>> THEN 0 ELSE Head(s) + SumSeq(Tail(s))

\* np.mean with the first sample left out of the sum
MeanSkipFirst(v) == [sum |-> SumSeq(Tail(v)), n |-> Len(v)]

\* np.mean(v): the exact quotient sum/len, kept as numerator and denominator
Mean(v) == [sum |-> SumSeq(v), n |-> Len(v)]

\* ------------------------------------------------------------------ state
VARIABLES
    args,        \* parsed command line (the five strtobool flags)
    USE_MLX,     \* config.USE_MLX: whether `mx` was imported
    operations,  \* the catalogue handed to run_processes
    iterations,  \* run_processes' iterations parameter
    pc,          \* position of the parent process
    reported,    \* answers of the availability queries made so far
    procs,       \* every mp.Process created so far, in creation order
    queue,       \* the mp.Queue
    op_idx,      \* index of `op` in the for loop over operations
    trial,       \* trials of the current operation already started
    times,       \* parent local `times` (last fragment received)
    op_times,    \* defaultdict(list) of the current operation
    op_name,     \* parent local op_name
    all_times,   \* defaultdict(dict): label -> backend -> mean
    pbar,        \* tqdm counter
    printed      \* tables printed so far

vars == <<args, USE_MLX, operations, iterations, pc, reported, procs, queue,
          op_idx, trial, times, op_times, op_name, all_times, pbar, printed>>

inputs == <<args, USE_MLX, operations, iterations>>

parentLocals == <<op_idx, trial, times, op_times, op_name, all_times, pbar, printed>>

Init ==
    /\ args \in ArgSpace
    /\ USE_MLX \in BOOLEAN
    /\ operations \in Catalogues
    /\ iterations \in 1..MaxIterations
    /\ pc = "check_cuda"
    /\ reported = EmptyDict
    /\ procs = <<>>
    /\ queue = <<>>
    /\ op_idx = 0
    /\ trial = 0
    /\ times = EmptyDict
    /\ op_times = EmptyDict
    /\ op_name = PyNone
    /\ all_times = EmptyDict
    /\ pbar = 0
    /\ printed = <<>>

\* ------------------------------------------------------- __main__ startup
\* if args.include_cuda: assert torch.cuda.is_available()
CheckCuda ==
    /\ pc = "check_cuda"
    /\ IF args["include_cuda"]
         THEN \E avail \in BOOLEAN :
                /\ reported' = DictSet(reported, "cuda", avail)
                /\ pc' = IF avail THEN "check_mps" ELSE "aborted"
         ELSE /\ pc' = "check_mps"
              /\ UNCHANGED reported
    /\ UNCHANGED <<inputs, procs, queue, parentLocals>>

\* the MPS check without its assert: the answer is read and ignored
CheckMpsIgnored ==
    /\ pc = "check_mps"
    /\ IF args["include_mps"]
         THEN \E avail \in BOOLEAN :
                /\ reported' = DictSet(reported, "mps", avail)
                /\ pc' = "for_op"
         ELSE /\ pc' = "for_op"
              /\ UNCHANGED reported
    /\ UNCHANGED <<inputs, procs, queue, parentLocals>>

\* if args.include_mps: assert torch.backends.mps.is_available()
CheckMps ==
    /\ pc = "check_mps"
    /\ IF args["include_mps"]
         THEN \E avail \in BOOLEAN :
                /\ reported' = DictSet(reported, "mps", avail)
                /\ pc' = IF avail THEN "for_op" ELSE "aborted"
         ELSE /\ pc' = "for_op"
              /\ UNCHANGED reported
    /\ UNCHANGED <<inputs, procs, queue, parentLocals>>

\* ---------------------------------------------------------- run_processes
\* op_times created once, before the operation loop
NextOpNoReset ==
    /\ pc = "for_op"
    /\ IF op_idx < Len(operations)
         THEN /\ op_idx' = op_idx + 1
              /\ op_name' = PyNone
              /\ trial' = 0
              /\ pc' = "for_trial"
              /\ UNCHANGED op_times
         ELSE /\ pc' = "print_detailed"
              /\ UNCHANGED <<op_idx, op_times, op_name, trial>>
    /\ UNCHANGED <<inputs, reported, procs, queue, times, all_times, pbar, printed>>

\* the operation loop stopping one operation early
NextOpSkipLast ==
    /\ pc = "for_op"
    /\ IF op_idx < Len(operations) - 1
         THEN /\ op_idx' = op_idx + 1
              /\ op_times' = EmptyDict
              /\ op_name' = PyNone
              /\ trial' = 0
              /\ pc' = "for_trial"
         ELSE /\ pc' = "print_detailed"
              /\ UNCHANGED <<op_idx, op_times, op_name, trial>>
    /\ UNCHANGED <<inputs, reported, procs, queue, times, all_times, pbar, printed>>

\* for op in operations: op_times = defaultdict(list); op_name = None
NextOp ==
    /\ pc = "for_op"
    /\ IF op_idx < Len(operations)
         THEN /\ op_idx' = op_idx + 1
              /\ op_times' = EmptyDict
              /\ op_name' = PyNone
              /\ trial' = 0
              /\ pc' = "for_trial"
         ELSE /\ pc' = "print_detailed"
              /\ UNCHANGED <<op_idx, op_times, op_name, trial>>
    /\ UNCHANGED <<inputs, reported, procs, queue, times, all_times, pbar, printed>>

\* a context that inherits the device selection the previous one left
NewProcessShared(o, t, l) ==
    [ op |-> o, trial |-> t, load |-> l, state |-> "running", pc |-> "mlx_gpu",
      device |-> IF procs = <<>> THEN "default" ELSE procs[Len(procs)].device,
      times |-> EmptyDict, calls |-> <<>>,
      sent |-> <<>>, exitcode |-> PyNone ]

\* A freshly spawned interpreter: nothing measured, default MLX device.
NewProcess(o, t, l) ==
    [ op |-> o, trial |-> t, load |-> l, state |-> "running", pc |-> "mlx_gpu",
      device |-> "default", times |-> EmptyDict, calls |-> <<>>,
      sent |-> <<>>, exitcode |-> PyNone ]

\* p.join() placed before queue.get()
StartProcessThenJoin ==
    /\ pc = "for_trial"
    /\ trial < iterations
    /\ \E l \in 0..MaxLoad :
         procs' = Append(procs, NewProcess(op_idx, trial + 1, l))
    /\ trial' = trial + 1
    /\ pc' = "join"
    /\ UNCHANGED <<inputs, reported, queue, op_idx, times, op_times, op_name,
                   all_times, pbar, printed>>

\* the trial loop running range(iterations + 1)
StartProcessOffByOne ==
    /\ pc = "for_trial"
    /\ trial <= iterations
    /\ \E l \in 0..MaxLoad :
         procs' = Append(procs, NewProcess(op_idx, trial + 1, l))
    /\ trial' = trial + 1
    /\ pc' = "get"
    /\ UNCHANGED <<inputs, reported, queue, op_idx, times, op_times, op_name,
                   all_times, pbar, printed>>

\* for _ in range(iterations): p = mp.Process(target=run, ...); p.start()
StartProcess ==
    /\ pc = "for_trial"
    /\ trial < iterations
    /\ \E l \in 0..MaxLoad :
         procs' = Append(procs, NewProcess(op_idx, trial + 1, l))
    /\ trial' = trial + 1
    /\ pc' = "get"
    /\ UNCHANGED <<inputs, reported, queue, op_idx, times, op_times, op_name,
                   all_times, pbar, printed>>

\* queue.get that gives up on an empty queue instead of blocking
QueueGetNoBlock ==
    /\ pc = "get"
    /\ IF queue # <<>>
         THEN /\ times' = Head(queue).data
              /\ queue' = Tail(queue)
         ELSE /\ procs[Len(procs)].state = "exited"
              /\ times' = EmptyDict
              /\ UNCHANGED queue
    /\ pc' = "join"
    /\ UNCHANGED <<inputs, reported, procs, op_idx, trial, op_times, op_name,
                   all_times, pbar, printed>>

\* times = queue.get(): blocks while the queue is empty
QueueGet ==
    /\ pc = "get"
    /\ queue # <<>>
    /\ times' = Head(queue).data
    /\ queue' = Tail(queue)
    /\ pc' = "join"
    /\ UNCHANGED <<inputs, reported, procs, op_idx, trial, op_times, op_name,
                   all_times, pbar, printed>>

\* the loop going on without p.join()
JoinNoWait ==
    /\ pc = "join"
    /\ pc' = "append"
    /\ UNCHANGED <<inputs, reported, procs, queue, parentLocals>>

\* p.join(): blocks until the process p has terminated
Join ==
    /\ pc = "join"
    /\ procs[Len(procs)].state = "exited"
    /\ procs' = [procs EXCEPT ![Len(procs)].state = "joined"]
    /\ pc' = "append"
    /\ UNCHANGED <<inputs, reported, queue, parentLocals>>

\* op_times[backend].append(time) for every (backend, time) of the fragment
AppendAll(lists, frag) ==
    [b \in (DOMAIN lists) \cup (DOMAIN frag) |->
        IF b \in DOMAIN frag
          THEN Append(DefaultGet(lists, b, <<>>), frag[b])
          ELSE lists[b]]

\* the append loop without op_name = list(times.keys())[0]
AppendSamplesNoName ==
    /\ pc = "append"
    /\ IF DOMAIN times = {}
         THEN /\ pc' = "raised"
              /\ UNCHANGED <<op_times, op_name>>
         ELSE LET first == CHOOSE k \in DOMAIN times : TRUE IN
              /\ op_times' = AppendAll(op_times, times[first])
              /\ UNCHANGED op_name
              /\ pc' = "update"
    /\ UNCHANGED <<inputs, reported, procs, queue, op_idx, trial, times,
                   all_times, pbar, printed>>

\* list(times.values())[0] and list(times.keys())[0]; an empty fragment
\* raises IndexError in the parent
AppendSamples ==
    /\ pc = "append"
    /\ IF DOMAIN times = {}
         THEN /\ pc' = "raised"
              /\ UNCHANGED <<op_times, op_name>>
         ELSE LET first == CHOOSE k \in DOMAIN times : TRUE IN
              /\ op_times' = AppendAll(op_times, times[first])
              /\ op_name' = first
              /\ pc' = "update"
    /\ UNCHANGED <<inputs, reported, procs, queue, op_idx, trial, times,
                   all_times, pbar, printed>>

\* pbar.update(iterations) in place of pbar.update(1)
PbarUpdateByIterations ==
    /\ pc = "update"
    /\ pbar' = pbar + iterations
    /\ pc' = "for_trial"
    /\ UNCHANGED <<inputs, reported, procs, queue, op_idx, trial, times,
                   op_times, op_name, all_times, printed>>

\* pbar.update(1)
PbarUpdate ==
    /\ pc = "update"
    /\ pbar' = pbar + 1
    /\ pc' = "for_trial"
    /\ UNCHANGED <<inputs, reported, procs, queue, op_idx, trial, times,
                   op_times, op_name, all_times, printed>>

\* the reduction placed inside the trial loop
ReduceEarly ==
    /\ pc = "for_trial"
    /\ trial >= 1
    /\ all_times' = DictSet(all_times, op_name,
                            [k \in DOMAIN op_times |-> Mean(op_times[k])])
    /\ pc' = "gc"
    /\ UNCHANGED <<inputs, reported, procs, queue, op_idx, trial, times,
                   op_times, op_name, pbar, printed>>

\* op_times_mean = {k: np.mean(v) ...}; all_times[op_name] = op_times_mean
Reduce ==
    /\ pc = "for_trial"
    /\ trial >= iterations
    /\ all_times' = DictSet(all_times, op_name,
                            [k \in DOMAIN op_times |-> Mean(op_times[k])])
    /\ pc' = "gc"
    /\ UNCHANGED <<inputs, reported, procs, queue, op_idx, trial, times,
                   op_times, op_name, pbar, printed>>

\* del op; gc.collect()
Collect ==
    /\ pc = "gc"
    /\ pc' = "for_op"
    /\ UNCHANGED <<inputs, reported, procs, queue, parentLocals>>

\* print("Detailed benchmark:"); print_benchmark(all_times, args)
PrintDetailed ==
    /\ pc = "print_detailed"
    /\ printed' = Append(printed, [table |-> "detailed", data |-> all_times])
    /\ pc' = "print_average"
    /\ UNCHANGED <<inputs, reported, procs, queue, op_idx, trial, times,
                   op_times, op_name, all_times, pbar>>

\* print("Average benchmark:"); print_benchmark(all_times, args, reduce_mean=True)
PrintAverage ==
    /\ pc = "print_average"
    /\ printed' = Append(printed, [table |-> "average", data |-> all_times])
    /\ pc' = "done"
    /\ UNCHANGED <<inputs, reported, procs, queue, op_idx, trial, times,
                   op_times, op_name, all_times, pbar>>

\* ------------------------------------------------------------------ run()
\* times[op_name][key] = elapsed, on times = defaultdict(dict)
Record(t, name, key, elapsed) ==
    DictSet(t, name, DictSet(DefaultGet(t, name, EmptyDict), key, elapsed))

\* one op.run(framework=..., device=..., compile=...) as the child sees it
Call(key, framework, device, compile, active) ==
    [ key |-> key, framework |-> framework, device |-> device,
      compile |-> compile, active |-> active ]

\* the exception caught inside run(): the partial fragment is put
RaiseMasked(p) == [p EXCEPT !.pc = "put"]

\* an exception leaves run(): the child dies with nothing put on the queue
Raise(p) == [p EXCEPT !.state = "exited", !.pc = "raised", !.exitcode = 1]

\* elapsed = op.run(...); times[op_name][key] = elapsed  -- or op.run raises
Invoke(i, key, call, active, next) ==
    LET p  == [procs[i] EXCEPT !.device = active,
                               !.calls = Append(@, call)]
        op == operations[p.op]
    IN \E ok \in BOOLEAN :
         procs' = [procs EXCEPT ![i] =
            IF ok
              THEN [p EXCEPT !.times = Record(@, OpName(op), key,
                                              Elapsed(op, key, p.load)),
                             !.pc = next]
              ELSE Raise(p)]

Skip(i, next) == procs' = [procs EXCEPT ![i].pc = next]

AtStep(i, step) ==
    /\ i \in DOMAIN procs
    /\ procs[i].state = "running"
    /\ procs[i].pc = step

parentState == <<inputs, pc, reported, queue, parentLocals>>

\* the accelerator block with `mx` imported unconditionally
RunMlxGpuImported(i) ==
    /\ AtStep(i, "mlx_gpu")
    /\ IF ~args["include_mlx"]
         THEN Skip(i, "cpu")
         ELSE Invoke(i, "mlx_gpu", Call("mlx_gpu", "mlx", PyNone, FALSE, "gpu"),
                     "gpu", "mlx_gpu_compile")
    /\ UNCHANGED parentState

\* if args.include_mlx: mx.set_default_device(mx.gpu); op.run(framework="mlx")
RunMlxGpu(i) ==
    /\ AtStep(i, "mlx_gpu")
    /\ IF ~args["include_mlx"]
         THEN Skip(i, "cpu")
         ELSE IF ~USE_MLX
           THEN procs' = [procs EXCEPT ![i] = Raise(@)]   \* NameError: mx
           ELSE Invoke(i, "mlx_gpu", Call("mlx_gpu", "mlx", PyNone, FALSE, "gpu"),
                       "gpu", "mlx_gpu_compile")
    /\ UNCHANGED parentState

\* the compiled run without its `if args.compile`
RunMlxCompileAlways(i) ==
    /\ AtStep(i, "mlx_gpu_compile")
    /\ Invoke(i, "mlx_gpu_compile",
              Call("mlx_gpu_compile", "mlx", PyNone, TRUE, procs[i].device),
              procs[i].device, "mlx_cpu")
    /\ UNCHANGED parentState

\* if args.compile: op.run(framework="mlx", compile=True)
RunMlxCompile(i) ==
    /\ AtStep(i, "mlx_gpu_compile")
    /\ IF args["compile"]
         THEN Invoke(i, "mlx_gpu_compile",
                     Call("mlx_gpu_compile", "mlx", PyNone, TRUE, procs[i].device),
                     procs[i].device, "mlx_cpu")
         ELSE Skip(i, "mlx_cpu")
    /\ UNCHANGED parentState

\* if args.include_cpu: mx.set_default_device(mx.cpu); op.run(framework="mlx")
RunMlxCpu(i) ==
    /\ AtStep(i, "mlx_cpu")
    /\ IF args["include_cpu"]
         THEN Invoke(i, "mlx_cpu", Call("mlx_cpu", "mlx", PyNone, FALSE, "cpu"),
                     "cpu", "cpu")
         ELSE Skip(i, "cpu")
    /\ UNCHANGED parentState

\* if args.include_cpu: op.run(framework="torch", device=torch.device("cpu"))
RunTorchCpu(i) ==
    /\ AtStep(i, "cpu")
    /\ IF args["include_cpu"]
         THEN Invoke(i, "cpu", Call("cpu", "torch", "cpu", FALSE, procs[i].device),
                     procs[i].device, "mps")
         ELSE Skip(i, "mps")
    /\ UNCHANGED parentState

\* if args.include_mps: op.run(framework="torch", device=torch.device("mps"))
RunTorchMps(i) ==
    /\ AtStep(i, "mps")
    /\ IF args["include_mps"]
         THEN Invoke(i, "mps", Call("mps", "torch", "mps", FALSE, procs[i].device),
                     procs[i].device, "cuda")
         ELSE Skip(i, "cuda")
    /\ UNCHANGED parentState

\* if args.include_cuda: op.run(framework="torch", device=torch.device("cuda"))
RunTorchCuda(i) ==
    /\ AtStep(i, "cuda")
    /\ IF args["include_cuda"]
         THEN Invoke(i, "cuda", Call("cuda", "torch", "cuda", FALSE, procs[i].device),
                     procs[i].device, "put")
         ELSE Skip(i, "put")
    /\ UNCHANGED parentState

\* run() putting its fragment twice
QueuePutTwice(i) ==
    /\ AtStep(i, "put")
    /\ queue' = queue \o << [data |-> procs[i].times, from |-> i],
                            [data |-> procs[i].times, from |-> i] >>
    /\ procs' = [procs EXCEPT ![i].sent = @ \o <<procs[i].times, procs[i].times>>,
                              ![i].pc = "return"]
    /\ UNCHANGED <<inputs, pc, reported, parentLocals>>

\* queue.put(times)   (run_processes always passes a queue)
QueuePut(i) ==
    /\ AtStep(i, "put")
    /\ queue' = Append(queue, [data |-> procs[i].times, from |-> i])
    /\ procs' = [procs EXCEPT ![i].sent = Append(@, procs[i].times),
                              ![i].pc = "return"]
    /\ UNCHANGED <<inputs, pc, reported, parentLocals>>

\* a child that stays alive after run() has returned
ProcessExitHang(i) ==
    /\ AtStep(i, "return")
    /\ procs' = [procs EXCEPT ![i].pc = "return"]
    /\ UNCHANGED parentState

\* run() returns and the child process terminates
ProcessExit(i) ==
    /\ AtStep(i, "return")
    /\ procs' = [procs EXCEPT ![i].state = "exited", ![i].exitcode = 0]
    /\ UNCHANGED parentState

Child(i) ==
    \/ RunMlxGpu(i)
    \/ RunMlxCompile(i)
    \/ RunMlxCpu(i)
    \/ RunTorchCpu(i)
    \/ RunTorchMps(i)
    \/ RunTorchCuda(i)
    \/ QueuePut(i)
    \/ ProcessExit(i)

Next ==
    \/ CheckCuda
    \/ CheckMps
    \/ NextOp
    \/ StartProcess
    \/ QueueGet
    \/ Join
    \/ AppendSamples
    \/ PbarUpdate
    \/ Reduce
    \/ Collect
    \/ PrintDetailed
    \/ PrintAverage
    \/ \E i \in DOMAIN procs : Child(i)

Spec == Init /\ [][Next]_vars


\* ============================================================ properties
\* The backend keys a Run Configuration enables (specification, section 4.1)
ExpectedKeys(a) ==
    { k \in Keys :
        CASE k = "mlx_gpu"         -> a["include_mlx"]
          [] k = "mlx_gpu_compile" -> a["include_mlx"] /\ a["compile"]
          [] k = "mlx_cpu"         -> a["include_mlx"] /\ a["include_cpu"]
          [] k = "cpu"             -> a["include_cpu"]
          [] k = "mps"             -> a["include_mps"]
          [] k = "cuda"            -> a["include_cuda"] }

FixedOrder == <<"mlx_gpu", "mlx_gpu_compile", "mlx_cpu", "cpu", "mps", "cuda">>

InExpected(k) == k \in ExpectedKeys(args)

ExpectedOrder == SelectSeq(FixedOrder, InExpected)

Label(j) == OpName(operations[j])

DistinctLabels ==
    \A j, k \in DOMAIN operations : j # k => Label(j) # Label(k)

\* a context exists from p.start() until the parent has joined it
Unjoined(i) == procs[i].state # "joined"

Delivered(i) == Len(procs[i].sent) = 1

\* the context terminated without putting a fragment
Crashed(i) == procs[i].state = "exited" /\ procs[i].sent = <<>>

TrialProc(j, t) ==
    CHOOSE i \in DOMAIN procs : procs[i].op = j /\ procs[i].trial = t

\* the samples for backend b put by the trials 1..n of operation j
Samples(j, b, n) == [t \in 1..n |-> procs[TrialProc(j, t)].sent[1][Label(j)][b]]

\* C1: execution contexts never overlap: at most one context is started and
\* not yet joined (so at most one is running), it is the newest one; every
\* older context has put its fragment, the parent has taken it and joined the
\* context; between p.start() and p.join() exactly one context exists.
C1_NoOverlap ==
    /\ Cardinality({i \in DOMAIN procs : Unjoined(i)}) <= 1
    /\ Cardinality({i \in DOMAIN procs : procs[i].state = "running"}) <= 1
    /\ \A i \in DOMAIN procs :
         i < Len(procs) =>
            /\ ~Unjoined(i)
            /\ Delivered(i)
            /\ \A q \in DOMAIN queue : queue[q].from # i
    /\ pc \in {"get", "join"} =>
         Cardinality({i \in DOMAIN procs : Unjoined(i)}) = 1

C1_Witness ==
    /\ Len(procs) = 2
    /\ procs[1].state = "joined"
    /\ procs[2].state = "running"
    /\ procs[2].pc = "put"

\* C2: operations are processed in catalogue order, and every trial of an
\* operation is started, received, joined, appended and counted before the
\* first trial of the next operation exists.
C2_CatalogueOrder ==
    /\ Len(procs) >= (op_idx - 1) * iterations
    /\ \A i \in DOMAIN procs :
         /\ procs[i].op = ((i - 1) \div iterations) + 1
         /\ procs[i].trial = ((i - 1) % iterations) + 1
         /\ procs[i].op <= op_idx
         /\ procs[i].op < op_idx =>
              /\ procs[i].state = "joined"
              /\ Delivered(i)
              /\ pbar >= i
              /\ Label(procs[i].op) \in DOMAIN all_times
    /\ pc = "for_trial" =>
         \A b \in DOMAIN op_times :
            /\ Len(op_times[b]) = trial
            /\ op_times[b] = Samples(op_idx, b, trial)

C2_Witness ==
    /\ iterations = 2
    /\ Len(procs) = 3
    /\ Label(1) # Label(2)
    /\ procs[3].op = 2
    /\ procs[3].state = "running"

\* C3 as stated: after a completed run every operation of the catalogue has
\* an entry under its label whose value for every enabled backend is the
\* mean of the `iterations` samples its own trials returned.
C3_EveryOperationHasItsMean ==
    pc = "done" =>
      \A j \in DOMAIN operations : \A b \in ExpectedKeys(args) :
         /\ Label(j) \in DOMAIN all_times
         /\ b \in DOMAIN all_times[Label(j)]
         /\ all_times[Label(j)][b] =
               [sum |-> SumSeq(Samples(j, b, iterations)), n |-> iterations]

LastWithItsLabel(j) ==
    \A k \in DOMAIN operations : k > j => Label(k) # Label(j)

\* C3 amended: the same, for every operation whose label is not repeated by
\* a later operation of the catalogue.
C3_LastOperationHasItsMean ==
    pc = "done" =>
      \A j \in DOMAIN operations : \A b \in ExpectedKeys(args) :
         LastWithItsLabel(j) =>
            /\ Label(j) \in DOMAIN all_times
            /\ b \in DOMAIN all_times[Label(j)]
            /\ all_times[Label(j)][b] =
                  [sum |-> SumSeq(Samples(j, b, iterations)), n |-> iterations]

C3_Witness ==
    /\ pc = "done"
    /\ Len(operations) = 2
    /\ Label(1) # Label(2)
    /\ iterations = 2
    /\ ExpectedKeys(args) = {"mlx_gpu", "cpu", "mlx_cpu"}
    /\ procs[1].load # procs[2].load

\* C4: one call of run() invokes exactly the backends its flags enable, in
\* the fixed order mlx_gpu, mlx_gpu_compile, mlx_cpu, cpu, mps, cuda, each
\* once, and records exactly those keys.
C4_KeysFollowFlags ==
    \A i \in DOMAIN procs :
       procs[i].pc = "return" =>
          /\ [c \in DOMAIN procs[i].calls |-> procs[i].calls[c].key] = ExpectedOrder
          /\ IF ExpectedKeys(args) = {}
               THEN procs[i].times = EmptyDict
               ELSE /\ DOMAIN procs[i].times = {Label(procs[i].op)}
                    /\ DOMAIN procs[i].times[Label(procs[i].op)] = ExpectedKeys(args)

C4_Witness ==
    /\ Len(procs) = 1
    /\ procs[1].pc = "return"
    /\ ExpectedKeys(args) = {"mlx_gpu", "mlx_cpu", "cpu", "cuda"}
    /\ Len(procs[1].calls) = 4

\* C5: a requested backend reported unavailable aborts the run at startup:
\* no context is created, no operation attempted, no table printed.
C5_PrecheckAborts ==
    (\E h \in DOMAIN reported : ~reported[h]) =>
       /\ pc = "aborted"
       /\ procs = <<>>
       /\ queue = <<>>
       /\ op_idx = 0
       /\ pbar = 0
       /\ all_times = EmptyDict
       /\ printed = <<>>

C5_Witness ==
    /\ pc = "aborted"
    /\ DOMAIN reported = {"cuda", "mps"}
    /\ reported["cuda"]
    /\ ~reported["mps"]

SomeCrashed == \E i \in DOMAIN procs : Crashed(i)

\* C6: once a context has terminated without putting a fragment the parent
\* is blocked in queue.get() and nothing ever changes again: the context is
\* not joined, no trial is started, nothing is reduced or printed.
C6_BlockedForever ==
    /\ [](SomeCrashed =>
            /\ pc = "get"
            /\ queue = <<>>
            /\ Crashed(Len(procs))
            /\ pbar = Len(procs) - 1
            /\ printed = <<>>)
    /\ [][SomeCrashed => (SomeCrashed' /\ UNCHANGED vars)]_vars

C6_Witness ==
    /\ Len(procs) = 2
    /\ Crashed(2)
    /\ procs[2].calls # <<>>
    /\ pc = "get"

\* C7: whenever an operation's samples are reduced, all `iterations` trials
\* of that operation are complete and every backend key of its running
\* sample lists holds exactly `iterations` samples.
C7_ReduceOnFullLists ==
    [][all_times' # all_times =>
          /\ trial = iterations
          /\ pbar = op_idx * iterations
          /\ \A i \in DOMAIN procs : procs[i].state = "joined"
          /\ Cardinality({i \in DOMAIN procs : procs[i].op = op_idx}) = iterations
          /\ \A b \in DOMAIN op_times : Len(op_times[b]) = iterations
          /\ \A b \in DOMAIN op_times : all_times'[op_name][b].n = iterations]_vars

C7_Witness ==
    /\ pc = "gc"
    /\ iterations = 2
    /\ op_idx = 2
    /\ Cardinality(DOMAIN op_times) = 6

\* C8: with pairwise distinct labels, the detailed timing set of a completed
\* run has exactly one entry per operation label, each holding exactly the
\* enabled backend keys, each mapped to one scalar.
C8_OneEntryPerLabel ==
    (pc = "done" /\ DistinctLabels) =>
       /\ DOMAIN all_times = {Label(j) : j \in DOMAIN operations}
       /\ Cardinality(DOMAIN all_times) = Len(operations)
       /\ \A l \in DOMAIN all_times :
            /\ DOMAIN all_times[l] = ExpectedKeys(args)
            /\ \A b \in DOMAIN all_times[l] :
                 /\ all_times[l][b].n = iterations
                 /\ all_times[l][b].sum \in Int

C8_Witness ==
    /\ pc = "done"
    /\ Len(operations) = 2
    /\ DistinctLabels
    /\ iterations = 1
    /\ ExpectedKeys(args) = {"cpu"}
    /\ Cardinality(DOMAIN all_times) = 2

AllReduced ==
    /\ op_idx = Len(operations)
    /\ Len(procs) = Len(operations) * iterations
    /\ \A i \in DOMAIN procs : procs[i].state = "joined"
    /\ pbar = Len(operations) * iterations
    /\ DOMAIN all_times = {Label(j) : j \in DOMAIN operations}

\* C9: the detailed table is printed first and the average table second,
\* both from the same aggregated data and only after every operation's
\* trials and reduction; an aborted startup prints nothing.
C9_TablesInOrder ==
    /\ [t \in DOMAIN printed |-> printed[t].table]
          \in {<<>>, <<"detailed">>, <<"detailed", "average">>}
    /\ \A t \in DOMAIN printed : printed[t].data = all_times
    /\ printed # <<>> => AllReduced
    /\ pc = "done" => Len(printed) = 2
    /\ pc = "aborted" => printed = <<>>

C9_Witness ==
    /\ pc = "done"
    /\ Len(printed) = 2
    /\ Len(operations) = 2
    /\ iterations = 2

\* C10 as stated: whatever the Run Configuration, the mapping run() puts on
\* the queue has exactly one top-level key, the operation's label.
C10_SingleEntryFragment ==
    \A i \in DOMAIN procs : \A s \in DOMAIN procs[i].sent :
       DOMAIN procs[i].sent[s] = {Label(procs[i].op)}

\* the fragment of context i has been put and taken off the queue
Drained(i) ==
    /\ Delivered(i)
    /\ \A q \in DOMAIN queue : queue[q].from # i

InTrial == pc \in {"get", "join", "append", "update", "raised"}

\* what C11 says of the channel in every state: at most one fragment in it,
\* always the newest context's; the parent is past its receive exactly when
\* that fragment is drained; the queue is empty when a context is started
\* and when the run is over.
ChannelState ==
    /\ Len(queue) <= 1
    /\ \A q \in DOMAIN queue : queue[q].from = Len(procs)
    /\ \A i \in DOMAIN procs : i < Len(procs) => Drained(i)
    /\ (InTrial /\ pc # "get") => Drained(Len(procs))
    /\ pc = "get" => ~Drained(Len(procs))
    /\ pc \in {"for_trial", "done"} => queue = <<>>

\* every change of the queue is the one put of the newest context or the
\* one receive of the current trial
ChannelSteps ==
    [][queue' # queue =>
          \/ /\ queue = <<>>
             /\ Len(queue') = 1
             /\ procs[Len(procs)].sent = <<>>
             /\ procs'[Len(procs)].sent = <<queue'[1].data>>
          \/ /\ pc = "get"
             /\ pc' = "join"
             /\ queue' = <<>>
             /\ times' = queue[1].data]_vars

\* C11 as stated: every context that has terminated has put exactly one
\* fragment, and the channel holds at most one fragment, drained once per
\* trial and empty at every start and at the end.
C11_ExactlyOnePut ==
    /\ \A i \in DOMAIN procs :
          procs[i].state \in {"exited", "joined"} => Len(procs[i].sent) = 1
    /\ ChannelState

\* C11 amended: a context puts at most one fragment, exactly one when run()
\* returns and none when run() raises; the parent completes one receive per
\* trial whose context put a fragment; the rest as stated.
C11_AtMostOnePut ==
    /\ [](/\ \A i \in DOMAIN procs :
               /\ Len(procs[i].sent) <= 1
               /\ procs[i].pc = "return" => Len(procs[i].sent) = 1
               /\ procs[i].pc = "raised" => Len(procs[i].sent) = 0
               /\ procs[i].state \in {"exited", "joined"} =>
                     procs[i].pc \in {"return", "raised"}
          /\ ChannelState)
    /\ ChannelSteps

C11_Witness ==
    /\ Len(procs) = 2
    /\ Len(queue) = 1
    /\ queue[1].from = 2
    /\ pc = "get"
    /\ procs[2].state = "exited"

CallKeys(i) == [c \in DOMAIN procs[i].calls |-> procs[i].calls[c].key]

\* the backend keys context i has recorded a timing for
Recorded(i) ==
    IF procs[i].times = EmptyDict
      THEN {}
      ELSE DOMAIN procs[i].times[Label(procs[i].op)]

\* some op.run of context i returned no timing, or run() was left by an error
Failed(i) ==
    \/ Len(procs[i].calls) > Cardinality(Recorded(i))
    \/ procs[i].pc = "raised"

\* C12: backends are invoked in the fixed order, none twice; after a failed
\* invocation the context is dead with exactly the earlier backends measured,
\* the failed one invoked last and once, no fragment put, and it never
\* changes again.
C12_FailureAbortsIteration ==
    /\ [](\A i \in DOMAIN procs :
             /\ CallKeys(i) = SubSeq(ExpectedOrder, 1, Len(procs[i].calls))
             /\ Failed(i) =>
                  /\ procs[i].pc = "raised"
                  /\ procs[i].state = "exited"
                  /\ procs[i].sent = <<>>
                  /\ \A q \in DOMAIN queue : queue[q].from # i
                  /\ procs[i].calls # <<>> =>
                       Recorded(i) = {CallKeys(i)[c] : c \in 1..(Len(procs[i].calls) - 1)})
    /\ [][\A i \in DOMAIN procs : Failed(i) => procs'[i] = procs[i]]_vars

C12_Witness ==
    /\ Len(procs) = 1
    /\ procs[1].pc = "raised"
    /\ Len(procs[1].calls) = 2
    /\ Cardinality(Recorded(1)) = 1
    /\ Len(ExpectedOrder) = 4

\* the device an accelerator invocation must find selected
RequiredDevice(key) == IF key = "mlx_cpu" THEN "cpu" ELSE "gpu"

MlxCalls(i) == { c \in DOMAIN procs[i].calls : procs[i].calls[c].framework = "mlx" }

\* C13: every accelerator invocation runs with the device its key requires,
\* and a context's device selection depends on its own invocations only: it
\* is the default until the context's first accelerator invocation, whatever
\* the previous context selected.
C13_DeviceIsolation ==
    \A i \in DOMAIN procs :
       /\ \A c \in MlxCalls(i) :
             procs[i].calls[c].active = RequiredDevice(procs[i].calls[c].key)
       /\ procs[i].pc = "mlx_gpu" => procs[i].device = "default"
       /\ procs[i].device =
             IF procs[i].calls = <<>>
               THEN "default"
               ELSE procs[i].calls[Len(procs[i].calls)].active

C13_Witness ==
    /\ Len(procs) = 2
    /\ procs[1].device = "cpu"
    /\ procs[1].state = "joined"
    /\ procs[2].pc = "mlx_gpu_compile"
    /\ procs[2].device = "gpu"

\* trials whose loop body (start, get, join, append, update) has run to its end
CompletedTrials == Len(procs) - (IF InTrial THEN 1 ELSE 0)

TotalTrials == Len(operations) * iterations

\* C14: the progress counter equals the number of completed trials in every
\* state, never exceeds len(operations) * iterations and equals it when the
\* run is over; it moves by one, and only once the trial's fragment is
\* received, its context joined and its samples appended.
C14_ProgressCountsTrials ==
    /\ [](/\ pbar = CompletedTrials
          /\ pbar <= TotalTrials
          /\ pc = "done" => pbar = TotalTrials)
    /\ [][pbar' # pbar =>
            /\ pbar' = pbar + 1
            /\ procs[Len(procs)].state = "joined"
            /\ Drained(Len(procs))
            /\ times = procs[Len(procs)].sent[1]
            /\ \A b \in DOMAIN times[op_name] :
                  /\ Len(op_times[b]) = trial
                  /\ op_times[b][trial] = times[op_name][b]]_vars

C14_Witness ==
    /\ pbar = 3
    /\ pc = "for_trial"
    /\ Len(procs) = 3
    /\ iterations = 2

\* The parent and the child are operating-system processes: a step that
\* stays possible is eventually taken.
LiveSpec == Init /\ [][Next]_vars /\ WF_vars(Next)

\* C15: unless a context terminates without its fragment (or startup aborts,
\* or no backend is enabled), the run finishes; it then has created exactly
\* len(operations) * iterations contexts, one per (operation, trial) pair,
\* each having run its operation once on every enabled backend, delivered
\* and been joined; a joined context is never touched again.
C15_RunFinishes ==
    /\ <>(pc = "done" \/ SomeCrashed \/ pc = "aborted" \/ ExpectedKeys(args) = {})
    /\ [](Len(procs) <= TotalTrials)
    /\ [](pc = "done" =>
            /\ Len(procs) = TotalTrials
            /\ \A j \in DOMAIN operations : \A t \in 1..iterations :
                  Cardinality({i \in DOMAIN procs :
                                 procs[i].op = j /\ procs[i].trial = t}) = 1
            /\ \A i \in DOMAIN procs :
                  /\ CallKeys(i) = ExpectedOrder
                  /\ Delivered(i)
                  /\ procs[i].state = "joined")
    /\ [][\A i \in DOMAIN procs :
            procs[i].state = "joined" => procs'[i] = procs[i]]_vars

C15_Witness ==
    /\ pc = "done"
    /\ TotalTrials = 4
    /\ Len(procs) = 4
    /\ Len(ExpectedOrder) >= 2
    /\ procs[4].state = "joined"

\* Allocation counter of a context: one unit for the interpreter and one per
\* op.run it has made, all of it gone when the process has terminated.
Allocated(i) ==
    IF procs[i].state = "running" THEN 1 + Len(procs[i].calls) ELSE 0

RECURSIVE AllocatedUpTo(_)
AllocatedUpTo(n) == IF n = 0 THEN 0 ELSE Allocated(n) + AllocatedUpTo(n - 1)

MemoryInUse == AllocatedUpTo(Len(procs))

\* C16: a context that is no longer the newest holds no memory; a context is
\* created, and an operation's reclamation step is left, with no context
\* memory in use; the memory in use never exceeds what one context needs,
\* however many operations have been processed.
C16_MemoryBounded ==
    /\ [](/\ \A i \in DOMAIN procs : i < Len(procs) => Allocated(i) = 0
          /\ pc \in {"for_op", "for_trial", "gc"} => MemoryInUse = 0
          /\ MemoryInUse <= 1 + Len(ExpectedOrder))
    /\ [][Len(procs') > Len(procs) =>
            /\ MemoryInUse = 0
            /\ MemoryInUse' = 1]_vars

C16_Witness ==
    /\ Len(procs) = 3
    /\ procs[3].op = 2
    /\ Allocated(3) = 3
    /\ Allocated(1) = 0
    /\ Allocated(2) = 0

\* the last operation of the catalogue that carries label l
LastWithLabel(l) ==
    CHOOSE j \in DOMAIN operations :
       Label(j) = l /\ \A k \in DOMAIN operations : Label(k) = l => k <= j

\* C17: the running sample lists hold samples of the current operation only,
\* at most `iterations` of them; in the final timing set every entry is the
\* mean over the `iterations` samples of the last operation with that label,
\* so a repeated label leaves fewer entries than operations.
C17_NoMixing ==
    /\ \A b \in DOMAIN op_times :
          /\ Len(op_times[b]) <= iterations
          /\ Len(op_times[b]) <= trial
          /\ \A t \in DOMAIN op_times[b] :
                op_times[b][t] =
                   procs[TrialProc(op_idx, t)].sent[1][Label(op_idx)][b]
    /\ pc = "done" =>
          /\ \A l \in DOMAIN all_times : \A b \in DOMAIN all_times[l] :
                all_times[l][b] =
                   Mean(Samples(LastWithLabel(l), b, iterations))
          /\ ~DistinctLabels => Cardinality(DOMAIN all_times) < Len(operations)

C17_Witness ==
    /\ pc = "done"
    /\ Len(operations) = 2
    /\ Label(1) = Label(2)
    /\ iterations = 2
    /\ Cardinality(DOMAIN all_times) = 1
    /\ ExpectedKeys(args) = {"cpu", "mps"}
    /\ procs[1].load + procs[2].load # procs[3].load + procs[4].load

\* C18 as stated: the fragment the parent holds after its receive was put by
\* the context created for the current trial of the current operation and
\* its one key is that operation's label.
C18_FragmentOfThisTrial ==
    pc \in {"join", "append", "update"} =>
       /\ procs[Len(procs)].op = op_idx
       /\ procs[Len(procs)].trial = trial
       /\ times = procs[Len(procs)].sent[1]
       /\ DOMAIN times = {Label(op_idx)}

\* the run is over: finished, aborted at startup, or ended by an exception
\* in the parent
ParentEnded == pc \in {"done", "aborted", "raised"}

\* C19: the parent waits in p.join() only for a context whose fragment it
\* has already taken off the queue, the receive of a trial always precedes
\* its join, and as long as no context has terminated without its fragment
\* some step is possible until the parent has ended.
C19_ReceiveBeforeJoin ==
    /\ [](/\ pc = "join" =>
               /\ Drained(Len(procs))
               /\ times = procs[Len(procs)].sent[1]
               /\ queue = <<>>
          /\ (~SomeCrashed /\ ~ParentEnded) => ENABLED Next)
    /\ [][/\ pc' = "join" /\ pc # "join" => pc = "get" /\ queue' # queue
          /\ procs' # procs /\ Len(procs') = Len(procs)
               /\ procs'[Len(procs)].state = "joined"
               => pc = "join"]_vars

C19_Witness ==
    /\ Len(procs) = 2
    /\ pc = "join"
    /\ procs[2].state = "running"
    /\ procs[2].pc = "return"
    /\ queue = <<>>

\* the accelerator backend is requested but its library was not imported
MlxMissing == args["include_mlx"] /\ ~USE_MLX

\* C20: with the accelerator backend requested, its library missing and a
\* non-empty catalogue, startup aborts only on a cuda or mps answer; else the
\* first context is created and dies at the device selection with no
\* invocation made, no timing recorded and no fragment put; the parent then
\* stays in queue.get(): no second context, no completed trial, no
\* reduction, no table, and nothing changes any more.
C20_MissingAcceleratorHangs ==
    /\ []((MlxMissing /\ operations # <<>>) =>
            /\ pc = "aborted" => \E h \in DOMAIN reported : ~reported[h]
            /\ pc \in {"check_cuda", "check_mps", "aborted", "for_op",
                       "for_trial", "get"}
            /\ Len(procs) <= 1
            /\ \A i \in DOMAIN procs :
                  /\ procs[i].calls = <<>>
                  /\ procs[i].times = EmptyDict
                  /\ procs[i].sent = <<>>
                  /\ procs[i].device = "default"
                  /\ procs[i].state # "running" => (Crashed(i) /\ pc = "get")
            /\ queue = <<>>
            /\ pbar = 0
            /\ all_times = EmptyDict
            /\ printed = <<>>)
    /\ [][(MlxMissing /\ SomeCrashed) => UNCHANGED vars]_vars
    /\ <>(~MlxMissing \/ operations = <<>> \/ pc = "aborted" \/ SomeCrashed)

C20_Witness ==
    /\ MlxMissing
    /\ DOMAIN reported = {"cuda", "mps"}
    /\ Len(procs) = 1
    /\ Crashed(1)
    /\ procs[1].pc = "raised"
    /\ pc = "get"

====
